---- MODULE Spec2Model ----
\* A model of sima/sequence.py: lazily evaluated frame sequences (the HDF5
\* adapter, _IndexedSequence, _MotionCorrectedSequence), their cursors, the
\* _todict / _from_dict protocol with _resolve_paths, and _fill_gaps.
EXTENDS Integers, Sequences, FiniteSets, TLC

VARIABLES seq, op, cur, fg, h5, rp

vars == <<seq, op, cur, fg, h5, rp>>

\* ------------------------------------------------------------------ bounds
\* Frames stored along the time axis of the modelled HDF5 dataset.
NFrames == 3
\* Wrappers stacked over a leaf sequence.
MaxWrap == 2
\* Frames of the stream handed to _fill_gaps.
MaxStream == 2

\* ------------------------------------------------- python values and slices
\* An optional value (python None is the empty tuple).
PyNone == <<>>

Some(x) == <<x>>

Min(a, b) == IF a < b THEN a ELSE b

Max(a, b) == IF a > b THEN a ELSE b

\* The three kinds of selector an index tuple may hold.
IntSel(i) == [kind |-> "int", i |-> i, start |-> PyNone, stop |-> PyNone, step |-> PyNone]

SliceSel(a, b, c) == [kind |-> "slice", i |-> 0, start |-> a, stop |-> b, step |-> c]

NoneSel == [kind |-> "none", i |-> 0, start |-> PyNone, stop |-> PyNone, step |-> PyNone]

FullSlice == SliceSel(PyNone, PyNone, PyNone)

\* slice.indices(n): the step, and the clamped start and stop.
SliceStep(sel) == IF sel.step = PyNone THEN 1 ELSE sel.step[1]

SliceLower(sel) == IF SliceStep(sel) < 0 THEN -1 ELSE 0

SliceUpper(sel, n) == IF SliceStep(sel) < 0 THEN n - 1 ELSE n

SliceClamp(v, sel, n) ==
    IF v < 0 THEN Max(v + n, SliceLower(sel)) ELSE Min(v, SliceUpper(sel, n))

SliceStart(sel, n) ==
    IF sel.start = PyNone
    THEN (IF SliceStep(sel) < 0 THEN SliceUpper(sel, n) ELSE SliceLower(sel))
    ELSE SliceClamp(sel.start[1], sel, n)

SliceStop(sel, n) ==
    IF sel.stop = PyNone
    THEN (IF SliceStep(sel) < 0 THEN SliceLower(sel) ELSE SliceUpper(sel, n))
    ELSE SliceClamp(sel.stop[1], sel, n)

SliceCount(sel, n) ==
    LET a == SliceStart(sel, n)
        b == SliceStop(sel, n)
        s == SliceStep(sel)
    IN  IF s > 0
        THEN (IF a < b THEN ((b - a - 1) \div s) + 1 ELSE 0)
        ELSE (IF b < a THEN ((a - b - 1) \div (0 - s)) + 1 ELSE 0)

\* The 0-based positions a slice selects from a list of n elements.
SliceIndices(sel, n) ==
    [k \in 1..SliceCount(sel, n) |-> SliceStart(sel, n) + (k - 1) * SliceStep(sel)]

\* lst[sel] for a python list and a slice.
ListSlice(lst, sel) ==
    LET ix == SliceIndices(sel, Len(lst))
    IN  [k \in 1..Len(ix) |-> lst[ix[k] + 1]]

\* range(n) as a list.
PyRange(n) == [k \in 1..n |-> k - 1]

\* "Reformat integer slices to avoid dimension collapse".
NormalizeSel(sel) ==
    IF sel.kind = "int" THEN SliceSel(Some(sel.i), Some(sel.i + 1), PyNone) ELSE sel

\* indices[1:] of a tuple.
Rest(tup) == [k \in 1..(Len(tup) - 1) |-> tup[k + 1]]

\* A result: a value, or the exception that was raised instead.
Ok(v) == [ok |-> TRUE, err |-> "", val |-> v]

Err(e, v) == [ok |-> FALSE, err |-> e, val |-> v]

\* ------------------------------------------------------- the HDF5 adapter
\* The size of each logical axis of the stored tensor.
AxisSize == [t |-> NFrames, z |-> 1, y |-> 2, x |-> 3, c |-> 2]

\* self._dataset.shape for a tensor stored in the declared order.
DatasetShape(dim_order) == [p \in 1..Len(dim_order) |-> AxisSize[dim_order[p]]]

\* dim_order.find(sym): the 0-based position, -1 when absent.
Find(dim_order, sym) ==
    IF \E p \in 1..Len(dim_order) : dim_order[p] = sym
    THEN (CHOOSE p \in 1..Len(dim_order) : dim_order[p] = sym) - 1
    ELSE -1

\* The canonical position of a frame axis: plane, row, column, channel.
AxisTarget(sym) ==
    CASE sym = "z" -> 0 [] sym = "y" -> 1 [] sym = "x" -> 2 [] sym = "c" -> 3

\* _Sequence_HDF5.__init__ on an opened dataset.
H5Seq(path, dim_order, group, key) ==
    [cls |-> "HDF5", path |-> path, dim_order |-> dim_order, group |-> group,
     key |-> key, shape |-> DatasetShape(dim_order)]

\* _Sequence_HDF5.__len__
H5Len(s) == s.shape[Find(s.dim_order, "t") + 1]

\* The swapper list after the None of the time axis is filtered out.
H5Swapper(dim_order) ==
    LET NotT(sym) == sym # "t"
        kept == SelectSeq(dim_order, NotT)
    IN  [p \in 1..Len(kept) |-> AxisTarget(kept[p])]

\* The axes of the hyperslab self._dataset[tuple(slices)]: the stored order
\* with the time axis dropped.
H5SlabAxes(dim_order) ==
    LET NotT(sym) == sym # "t"
    IN  SelectSeq(dim_order, NotT)

\* np.argmin(swapper[i:]) + i, 0-based: the first position of the minimum.
ArgMinFrom(swapper, i) ==
    (CHOOSE j \in (i + 1)..Len(swapper) :
        /\ \A k \in (i + 1)..Len(swapper) : swapper[j] <= swapper[k]
        /\ \A k \in (i + 1)..(j - 1) : swapper[k] > swapper[j]) - 1

\* a[i], a[j] = a[j], a[i] on 0-based positions.
SwapItems(a, i, j) ==
    [k \in 1..Len(a) |-> IF k = i + 1 THEN a[j + 1] ELSE IF k = j + 1 THEN a[i + 1] ELSE a[k]]

\* The statement "frame.swapaxes(i, idx)": numpy returns the swapped view as
\* a new array and the statement drops it, so the name frame keeps its axes.
SwapAxesStatement(axes, i, idx) ==
    LET view == SwapItems(axes, i, idx)
    IN  axes

\* One pass of the body of "for i in range(frame.ndim)".
H5LoopStep(st) ==
    LET idx == ArgMinFrom(st.swapper, st.i)
    IN  IF idx # st.i
        THEN [i |-> st.i + 1,
              swapper |-> SwapItems(st.swapper, st.i, idx),
              axes |-> SwapAxesStatement(st.axes, st.i, idx)]
        ELSE [st EXCEPT !.i = @ + 1]

RECURSIVE H5Loop(_)
H5Loop(st) == IF st.i >= Len(st.axes) THEN st ELSE H5Loop(H5LoopStep(st))

\* The state of _get_frame when its loop starts.
H5LoopStart(dim_order) ==
    [i |-> 0, swapper |-> H5Swapper(dim_order), axes |-> H5SlabAxes(dim_order)]

\* A frame: the stored time index it was read at, the displacements it was
\* aligned with, its axes, and for each axis the stored positions it keeps.
MakeFrame(t, axes) ==
    [t |-> t, disp |-> <<>>, axes |-> axes,
     sel |-> [a \in 1..Len(axes) |-> PyRange(AxisSize[axes[a]])]]

NoFrame == [t |-> -1, disp |-> <<>>, axes |-> <<>>, sel |-> <<>>]

\* _Sequence_HDF5._get_frame
H5GetFrame(s, t) == MakeFrame(t, H5Loop(H5LoopStart(s.dim_order)).axes)

\* frame.shape
FrameShape(frame) == [a \in 1..Len(frame.sel) |-> Len(frame.sel[a])]

\* frame[indices[1:]]: basic indexing of an array with a tuple of slices.
ApplyIdx(frame, sels) ==
    IF Len(sels) > Len(frame.sel)
    THEN Err("IndexError", NoFrame)
    ELSE Ok([frame EXCEPT !.sel =
                [a \in 1..Len(frame.sel) |->
                    IF a <= Len(sels) THEN ListSlice(frame.sel[a], sels[a])
                    ELSE frame.sel[a]]])

\* sima._motion._align_frame: a pure function of the frame and the
\* displacement, returning a frame of the declared shape.
AlignFrame(frame, displacement, frame_shape) ==
    [frame EXCEPT !.disp = Append(@, displacement)]

\* ------------------------------------------------------------ sequences
\* A Sequence subclass that implements __iter__ and inherits _get_frame.
CursorSeq(n) == [cls |-> "Cursor", n |-> n]

\* The message of the AttributeError that _IndexedSequence.__iter__ handles.
NoGetFrameMsg == "AttributeError: 'super' object has no attribute '_get_frame'"

\* The axes of a frame in canonical order.
CanonicalAxes == <<"z", "y", "x", "c">>

\* _WrapperSequence.__init__ and _MotionCorrectedSequence.__init__
MCSeq(base, displacements, frame_shape) ==
    [cls |-> "MC", base |-> base, displacements |-> displacements,
     frame_shape |-> frame_shape]

RECURSIVE SeqLen(_)
\* __len__ of each class.
SeqLen(s) ==
    CASE s.cls = "HDF5" -> H5Len(s)
      [] s.cls = "Cursor" -> s.n
      [] s.cls = "MC" -> SeqLen(s.base)
      [] s.cls = "Indexed" ->
            Len(ListSlice(PyRange(SeqLen(s.base)), s.indices[1]))

\* _IndexedSequence.__init__
IndexedInit(base, indices) ==
    LET tup == IF indices.tuple THEN indices.sels ELSE <<indices.sels[1]>>
        norm == [k \in 1..Len(tup) |-> NormalizeSel(tup[k])]
        n == SeqLen(base)
    IN  IF norm[1].kind = "none"
        THEN Err("TypeError", base)
        ELSE Ok([cls |-> "Indexed", base |-> base, base_len |-> n,
                 indices |-> norm, times |-> ListSlice(PyRange(n), norm[1])])

RECURSIVE GetFrame(_, _)
\* _get_frame(t) of each class; Sequence._get_frame raises.
GetFrame(s, t) ==
    CASE s.cls = "HDF5" -> Ok(H5GetFrame(s, t))
      [] s.cls = "Cursor" -> Err("NotImplementedError", NoFrame)
      [] s.cls = "MC" ->
            LET r == GetFrame(s.base, t)
            IN  IF ~r.ok THEN r
                ELSE IF t >= Len(s.displacements) THEN Err("IndexError", NoFrame)
                ELSE Ok(AlignFrame(r.val, s.displacements[t + 1], s.frame_shape))
      [] s.cls = "Indexed" ->
            LET r == GetFrame(s.base, s.times[t + 1])
            IN  IF r.ok THEN ApplyIdx(r.val, Rest(s.indices)) ELSE r

\* The frames a generator yields, and the exception that ended it ("" when it
\* ended by exhaustion).
Yielded(frames, err) == [frames |-> frames, err |-> err]

\* The try block of _IndexedSequence.__iter__: one _get_frame per selected
\* time, up to the first that raises.
IndexedTry(s) ==
    LET r == [k \in 1..Len(s.times) |-> GetFrame(s, k - 1)]
        bad == {k \in 1..Len(s.times) : ~r[k].ok}
        stop == IF bad = {} THEN Len(s.times) + 1
                ELSE CHOOSE k \in bad : \A j \in bad : k <= j
    IN  Yielded([k \in 1..(stop - 1) |-> r[k].val],
                IF bad = {} THEN "" ELSE r[stop].err)

RECURSIVE IndexedWalk(_, _, _, _)
\* The except block of _IndexedSequence.__iter__: walk the base's cursor with
\* a pointer idx into the selected times.
IndexedWalk(s, b, t, idx) ==
    IF t >= Len(b.frames) THEN Yielded(<<>>, b.err)
    ELSE IF idx >= Len(s.times) THEN Yielded(<<>>, "")
    ELSE IF t = s.times[idx + 1]
         THEN LET f == ApplyIdx(b.frames[t + 1], Rest(s.indices))
                  more == IndexedWalk(s, b, t + 1, idx + 1)
              IN  IF f.ok THEN Yielded(<<f.val>> \o more.frames, more.err)
                  ELSE Yielded(<<>>, f.err)
         ELSE IndexedWalk(s, b, t + 1, idx)

\* _IndexableSequence.__iter__: for t in xrange(len(self)): yield _get_frame(t)
IndexableIterShort(s) ==
    Yielded([k \in 1..(H5Len(s) - 1) |-> H5GetFrame(s, k - 1)], "")

IndexableIter(s) ==
    Yielded([k \in 1..H5Len(s) |-> H5GetFrame(s, k - 1)], "")

RECURSIVE Iter(_)
\* __iter__ of each class, run to its end.
Iter(s) ==
    CASE s.cls = "HDF5" -> IndexableIter(s)
      [] s.cls = "Cursor" ->
            Yielded([k \in 1..s.n |-> MakeFrame(k - 1, CanonicalAxes)], "")
      [] s.cls = "MC" ->
            LET b == Iter(s.base)
                m == Min(Len(b.frames), Len(s.displacements))
            IN  Yielded([k \in 1..m |->
                            AlignFrame(b.frames[k], s.displacements[k], s.frame_shape)],
                        IF Len(b.frames) <= Len(s.displacements) THEN b.err ELSE "")
      [] s.cls = "Indexed" ->
            LET tr == IndexedTry(s)
            IN  IF tr.err = NoGetFrameMsg
                THEN LET w == IndexedWalk(s, Iter(s.base), 0, 0)
                     IN  Yielded(tr.frames \o w.frames, w.err)
                ELSE tr

\* indices[0] in (None, slice(None))
IsFullTime(sel) == sel.kind = "none" \/ sel = FullSlice

\* self.displacements[times] for a slice or an integer.
DispGetItem(displacements, sel) ==
    IF sel.kind = "slice" THEN Ok(ListSlice(displacements, sel))
    ELSE IF sel.i >= Len(displacements) \/ sel.i < 0 - Len(displacements)
         THEN Err("IndexError", <<>>)
    ELSE Ok(displacements[(IF sel.i < 0 THEN sel.i + Len(displacements) ELSE sel.i) + 1])

RECURSIVE GetItem(_, _)
\* __getitem__: Sequence's, and _MotionCorrectedSequence's override.
GetItem(s, indices) ==
    IF s.cls # "MC" THEN IndexedInit(s, indices)
    ELSE IF ~indices.tuple THEN Err("TypeError", s)
    ELSE IF Len(indices.sels) > 5 THEN Err("ValueError", s)
    ELSE IF ~IsFullTime(indices.sels[1])
         THEN LET times == indices.sels[1]
                  new_indices == <<NoneSel>> \o Rest(indices.sels)
                  b == GetItem(s.base, [tuple |-> FALSE, sels |-> <<times>>])
                  d == DispGetItem(s.displacements, times)
              IN  IF ~b.ok THEN Err(b.err, s)
                  ELSE IF ~d.ok THEN Err(d.err, s)
                  ELSE GetItem(MCSeq(b.val, d.val, s.frame_shape),
                               [tuple |-> TRUE, sels |-> new_indices])
    ELSE IF Len(indices.sels) = 5 THEN Err("IndexError", s)
    ELSE IndexedInit(s, indices)

\* Sequence.shape: (len(self),) + iter(self).next().shape
SeqShape(s) ==
    LET it == Iter(s)
    IN  IF it.frames = <<>>
        THEN Err(IF it.err = "" THEN "StopIteration" ELSE it.err, <<>>)
        ELSE Ok(<<SeqLen(s)>> \o FrameShape(it.frames[1]))

\* ------------------------------------------------- paths and the file system
\* A path is the tuple of its components below the root.
RECURSIVE NormPath(_)
\* normcase(abspath(normpath(p))) of an absolute posix path: "." is dropped
\* and ".." removes the component before it.
NormPath(p) ==
    IF p = <<>> THEN <<>>
    ELSE LET head == NormPath(SubSeq(p, 1, Len(p) - 1))
             last == p[Len(p)]
         IN  IF last = "." THEN head
             ELSE IF last = ".."
                  THEN (IF head = <<>> THEN <<>> ELSE SubSeq(head, 1, Len(head) - 1))
             ELSE Append(head, last)

\* join(savedir, relp)
JoinPath(savedir, relp) == savedir \o relp

\* The names a stored path may resolve to; a file system maps each of them
\* to the file it names (0 when no file is there).
PathNames == {<<"proj", "a.h5">>, <<"old", "a.h5">>, <<"lnk", "a.h5">>}

FileIds == 0..2

\* isfile(p)
IsFile(fs, p) == p \in DOMAIN fs /\ fs[p] # 0

\* samefile(p, q) of two existing files.
SameFileByName(fs, p, q) == p = q

SameFile(fs, p, q) == fs[p] = fs[q]

\* The set "paths" of _resolve_paths before it is filtered.
Candidates(d, savedir) ==
    (IF d.relpath = PyNone THEN {} ELSE {NormPath(JoinPath(savedir, d.relpath[1]))})
    \cup (IF d.abspath = PyNone THEN {} ELSE {NormPath(d.abspath[1])})

\* filter(isfile, paths), as a set: the order of the list is the set's
\* iteration order, which the caller does not control.
Existing(d, savedir, fs) == {p \in Candidates(d, savedir) : IsFile(fs, p)}

\* _resolve_paths(d, savedir); last is the element the first paths.pop()
\* returns when two candidates exist.
ResolvePaths(d, savedir, fs, last) ==
    LET popped == [d EXCEPT !.relpath = PyNone, !.abspath = PyNone]
        paths == Existing(d, savedir, fs)
    IN  IF Candidates(d, savedir) = {} THEN Ok(popped)
        ELSE IF Cardinality(paths) # 1
             THEN IF paths = {} THEN Err("IndexError", popped)
                  ELSE IF \A p \in paths \ {last} : SameFile(fs, last, p)
                       THEN Ok([popped EXCEPT !.path =
                                   Some(CHOOSE p \in paths \ {last} : TRUE)])
                       ELSE Err("PathAmbiguity", popped)
        ELSE Ok([popped EXCEPT !.path = Some(CHOOSE p \in paths : TRUE)])

\* The choices of the element popped first.
PopChoices(d, savedir, fs) ==
    IF Cardinality(Existing(d, savedir, fs)) = 2 THEN Existing(d, savedir, fs)
    ELSE {<<>>}

\* ---------------------------------------------------------- serialization
RECURSIVE ToDict(_)
\* _todict of each class.
ToDict(s) ==
    CASE s.cls = "HDF5" ->
            [class |-> "HDF5", path |-> Some(s.path), dim_order |-> s.dim_order,
             group |-> s.group, key |-> s.key, relpath |-> PyNone, abspath |-> PyNone]
      [] s.cls = "Cursor" ->
            [class |-> "Cursor", n |-> s.n, path |-> PyNone, relpath |-> PyNone,
             abspath |-> PyNone]
      [] s.cls = "MC" ->
            [class |-> "MC", base |-> ToDict(s.base),
             displacements |-> s.displacements, frame_shape |-> s.frame_shape]
      [] s.cls = "Indexed" ->
            [class |-> "Indexed", base |-> ToDict(s.base), indices |-> s.indices]

\* cls(**d) for a leaf class: the HDF5 adapter opens the file at d['path'].
Construct(tag, d, fs) ==
    IF tag = "Cursor" THEN Ok(CursorSeq(d.n))
    ELSE IF d.path = PyNone THEN Err("TypeError", d)
    ELSE IF ~IsFile(fs, d.path[1]) THEN Err("IOError", d)
    ELSE Ok(H5Seq(NormPath(d.path[1]), d.dim_order, d.group, d.key))

\* Sequence._from_dict
SequenceFromDict(tag, d, savedir, fs, last) ==
    LET r == IF savedir # PyNone THEN ResolvePaths(d, savedir[1], fs, last) ELSE Ok(d)
    IN  IF r.ok THEN Construct(tag, r.val, fs) ELSE r

\* cls(base, **d) of a wrapper class, d being what is left of the mapping.
WrapperConstructDropArgs(tag, base, d) ==
    IF tag = "MC" THEN Ok(MCSeq(base, d.displacements, d.frame_shape))
    ELSE IndexedInit(base, [tuple |-> TRUE, sels |-> <<FullSlice>>])

WrapperConstruct(tag, base, d) ==
    IF tag = "MC" THEN Ok(MCSeq(base, d.displacements, d.frame_shape))
    ELSE IndexedInit(base, [tuple |-> TRUE, sels |-> d.indices])

\* The _from_dict of a class defined outside this module: that class's own
\* code runs, and here returns a sequence of d.n frames.
ForeignFromDict(d, savedir) == Ok(CursorSeq(d.n))

RECURSIVE FromDict(_, _, _, _)
\* _from_dict of the object stored under '__class__': a value without the
\* attribute raises AttributeError, any other object has its _from_dict
\* called. _WrapperSequence's pops the nested mapping and its '__class__',
\* rebuilds the base, then builds the wrapper.
FromDict(tag, d, savedir, fs) ==
    IF tag = "NoClass" THEN Err("AttributeError", d)
    ELSE IF tag = "Foreign" THEN ForeignFromDict(d, savedir)
    ELSE IF tag \in {"HDF5", "Cursor"}
    THEN SequenceFromDict(tag, d, savedir, fs, <<>>)
    ELSE LET base_dict == d.base
             base_class == base_dict.class
             base == FromDict(base_class, base_dict, savedir, fs)
         IN  IF base.ok THEN WrapperConstruct(tag, base.val, d) ELSE base

RECURSIVE FromDictInvoked(_, _)
\* The objects whose _from_dict is called by FromDict, in call order.
FromDictInvoked(tag, d) ==
    IF tag = "NoClass" THEN <<>>
    ELSE IF tag \in {"MC", "Indexed"}
    THEN <<tag>> \o FromDictInvoked(d.base.class, d.base)
    ELSE <<tag>>

\* ------------------------------------------------------- the state machine
\* seq is the Sequence the program holds, op the last operation applied to
\* it, cur the two generators obtained from it by iter(seq).
ProjectDir == <<"proj">>

DataPath == <<"proj", "a.h5">>

\* The file system of the project: the data file is where it was saved.
ProjectFs == [p \in PathNames |-> IF p = DataPath THEN 1 ELSE 0]

CanonicalOrder == <<"t", "z", "y", "x", "c">>

\* frame_shape: (planes, rows, columns)
TargetShape == <<AxisSize["z"], AxisSize["y"], AxisSize["x"]>>

\* A displacement array of shape (num_rows * num_frames, 2): entry j is the
\* offset of row j % num_rows of frame j // num_rows, written as that pair.
MakeDisplacements(n, rows) == [j \in 1..(n * rows) |-> <<(j - 1) \div rows, (j - 1) % rows>>]

Row13 == SliceSel(Some(1), Some(3), PyNone)

TimeSels == {Row13, SliceSel(PyNone, PyNone, Some(2)), IntSel(0), IntSel(-1)}

RowSels == {IntSel(0), IntSel(-1), SliceSel(Some(1), PyNone, PyNone)}

\* The index expressions the model applies: a bare selector, or a tuple of
\* 1, 3 or 5 selectors (time, plane, row, column, channel).
IndexSpecs ==
    {[tuple |-> FALSE, sels |-> <<t>>] : t \in TimeSels}
    \cup {[tuple |-> TRUE, sels |-> <<t>>] : t \in {FullSlice, Row13}}
    \cup {[tuple |-> TRUE, sels |-> <<FullSlice, FullSlice, r>>] : r \in RowSels}
    \cup {[tuple |-> TRUE, sels |-> <<Row13, FullSlice, SliceSel(Some(1), PyNone, PyNone)>>],
          [tuple |-> TRUE, sels |-> <<FullSlice, FullSlice, FullSlice, FullSlice, FullSlice>>]}

RECURSIVE Depth(_)
Depth(s) == IF s.cls \in {"HDF5", "Cursor"} THEN 0 ELSE 1 + Depth(s.base)

NoIndex == [tuple |-> FALSE, sels |-> <<FullSlice>>]

OpRecord(name, indices, prev, r) ==
    [name |-> name, indices |-> indices, prev |-> prev, ok |-> r.ok, err |-> r.err]

\* No generator has been obtained.
NoCursors ==
    [open |-> FALSE, pos |-> <<0, 0>>, out |-> <<<<>>, <<>>>>,
     err |-> <<"", "">>, done |-> <<FALSE, FALSE>>]

\* _fill_gaps, _get_frame and _from_dict have not been called.
IdleFg == [pc |-> "idle"]

IdleH5 == [pc |-> "idle"]

IdleRp == [pc |-> "idle"]

InitSeq(leaf) ==
    /\ seq = leaf
    /\ op = OpRecord("create", NoIndex, leaf, Ok(leaf))
    /\ cur = NoCursors
    /\ fg = IdleFg
    /\ h5 = IdleH5
    /\ rp = IdleRp

Init == InitSeq(H5Seq(DataPath, CanonicalOrder, "/", "imaging"))

InitCursorOnly == InitSeq(CursorSeq(NFrames))

\* seq[indices]
Slice(indices) ==
    /\ Depth(seq) < MaxWrap
    /\ LET r == GetItem(seq, indices)
       IN  /\ seq' = IF r.ok THEN r.val ELSE seq
           /\ op' = OpRecord("getitem", indices, seq, r)
    /\ cur' = NoCursors
    /\ UNCHANGED <<fg, h5, rp>>

\* _MotionCorrectedSequence(seq, displacements, frame_shape)
WrapMC ==
    /\ Depth(seq) < MaxWrap
    /\ seq' = MCSeq(seq, MakeDisplacements(SeqLen(seq), TargetShape[2]), TargetShape)
    /\ op' = OpRecord("correct", NoIndex, seq, Ok(seq))
    /\ cur' = NoCursors
    /\ UNCHANGED <<fg, h5, rp>>

\* The caller's d.pop('__class__')._from_dict(d, savedir) on seq._todict().
Reconstruct ==
    /\ LET d == ToDict(seq)
           r == FromDict(d.class, d, Some(ProjectDir), ProjectFs)
       IN  /\ seq' = IF r.ok THEN r.val ELSE seq
           /\ op' = OpRecord("reconstruct", NoIndex, seq, r)
    /\ cur' = NoCursors
    /\ UNCHANGED <<fg, h5, rp>>

\* iter(seq), twice.
OpenCursors ==
    /\ ~cur.open
    /\ cur' = [NoCursors EXCEPT !.open = TRUE]
    /\ op' = OpRecord("iter", NoIndex, seq, Ok(seq))
    /\ UNCHANGED <<seq, fg, h5, rp>>

\* next() on generator c: its own frame resumes where it was suspended.
CursorNextShared(c) ==
    LET it == Iter(seq)
        p == cur.pos[c]
    IN  IF p < Len(it.frames)
        THEN [cur EXCEPT !.pos = <<p + 1, p + 1>>, !.out[c] = Append(@, it.frames[p + 1])]
        ELSE [cur EXCEPT !.done[c] = TRUE, !.err[c] = it.err]

CursorNext(c) ==
    LET it == Iter(seq)
        p == cur.pos[c]
    IN  IF p < Len(it.frames)
        THEN [cur EXCEPT !.pos[c] = p + 1, !.out[c] = Append(@, it.frames[p + 1])]
        ELSE [cur EXCEPT !.done[c] = TRUE, !.err[c] = it.err]

Advance(c) ==
    /\ cur.open
    /\ ~cur.done[c]
    /\ cur' = CursorNext(c)
    /\ UNCHANGED <<seq, op, fg, h5, rp>>

NextSeq ==
    \/ \E indices \in IndexSpecs : Slice(indices)
    \/ WrapMC
    \/ Reconstruct
    \/ OpenCursors
    \/ \E c \in {1, 2} : Advance(c)

Spec == Init /\ [][NextSeq]_vars

SpecCursorOnly == InitCursorOnly /\ [][NextSeq]_vars

\* ------------------------------------------------- properties of sequences
\* The positions of 0..n-1 a selector picks: an integer picks the one
\* position it names, counted from the end when negative.
RefPick(sel, n) ==
    IF sel.kind = "int"
    THEN (IF sel.i < 0 THEN <<sel.i + n>> ELSE <<sel.i>>)
    ELSE SliceIndices(sel, n)

\* A frame with a selector applied to each of its leading axes.
RefApply(frame, sels) ==
    [frame EXCEPT !.sel =
        [a \in 1..Len(frame.sel) |->
            IF a <= Len(sels)
            THEN LET pk == RefPick(sels[a], Len(frame.sel[a]))
                 IN  [k \in 1..Len(pk) |-> frame.sel[a][pk[k] + 1]]
            ELSE frame.sel[a]]]

\* An integer selector is valid on an axis of n elements when -n <= i < n.
ValidSel(sel, n) == sel.kind = "int" => (0 - n <= sel.i /\ sel.i < n)

\* Every integer of the index expression names an element of its axis.
ValidIndex(before, indices) ==
    /\ Len(indices.sels) <= 5
    /\ ValidSel(indices.sels[1], SeqLen(before))
    /\ \A f \in {Iter(before).frames[k] : k \in 1..Len(Iter(before).frames)} :
          \A a \in 1..Len(f.sel) :
              a + 1 <= Len(indices.sels) => ValidSel(indices.sels[a + 1], Len(f.sel[a]))

\* What seq[indices] is to be, given the frames of the sequence it slices.
SliceMatches(before, after, indices) ==
    LET picks == RefPick(indices.sels[1], SeqLen(before))
        was == Iter(before)
        now == Iter(after)
    IN  /\ SeqLen(after) = Len(picks)
        /\ now.err = ""
        /\ Len(now.frames) = Len(picks)
        /\ \A k \in 1..Len(picks) :
              now.frames[k] = RefApply(was.frames[picks[k] + 1], Rest(indices.sels))

\* C1: for every Sequence S of length n and every index expression I of at
\* most 5 selectors, S[I] has as many frames as I's time selector picks from
\* 0..n-1, and its k-th frame is S's frame at the k-th picked time with the
\* remaining selectors applied.
C1_SliceEqualsDense ==
    (op.name = "getitem" /\ ValidIndex(op.prev, op.indices)) =>
        (op.ok /\ SliceMatches(op.prev, seq, op.indices))

\* C2: rebuilding a Sequence from its own _todict gives a Sequence with the
\* same length, the same shape and the same frame at every position, the
\* wrapper being built over the rebuilt base with its own remaining arguments.
C2_RoundTrip ==
    op.name = "reconstruct" =>
        /\ op.ok
        /\ SeqLen(seq) = SeqLen(op.prev)
        /\ SeqShape(seq) = SeqShape(op.prev)
        /\ Iter(seq) = Iter(op.prev)
        /\ ToDict(seq) = ToDict(op.prev)

C2_Witness ==
    /\ op.name = "reconstruct"
    /\ seq.cls = "Indexed"
    /\ Len(seq.indices) = 3
    /\ seq.indices[3] = SliceSel(Some(1), PyNone, PyNone)
    /\ seq.base.cls = "MC"
    /\ seq.base.base.cls = "HDF5"
    /\ Len(Iter(seq).frames) >= 2

\* The entries of a displacement array that belong to the picked frames.
RECURSIVE DispBlock(_, _, _)
DispBlock(displacements, picks, rows) ==
    IF picks = <<>> THEN <<>>
    ELSE SubSeq(displacements, picks[1] * rows + 1, (picks[1] + 1) * rows)
         \o DispBlock(displacements, Tail(picks), rows)

\* C5: slicing a _MotionCorrectedSequence on its time axis succeeds and gives
\* a sequence built from a new _MotionCorrectedSequence over the time-sliced
\* base, whose displacement array is the block of the original entries that
\* belong to the selected frames.
C5_TimePushdown ==
    (/\ op.name = "getitem"
     /\ op.prev.cls = "MC"
     /\ op.indices.sels[1] = Row13) =>
        /\ op.ok
        /\ seq.cls = "Indexed"
        /\ seq.base.cls = "MC"
        /\ seq.base.base = IndexedInit(op.prev.base, [tuple |-> FALSE, sels |-> <<Row13>>]).val
        /\ seq.base.displacements =
              DispBlock(op.prev.displacements,
                        RefPick(Row13, SeqLen(op.prev)), op.prev.frame_shape[2])

\* Each generator has yielded the frames of seq up to its own position, and
\* an exhausted generator has yielded all of them.
CursorsAgree ==
    cur.open =>
        \A c \in {1, 2} :
            /\ cur.out[c] = SubSeq(Iter(seq).frames, 1, cur.pos[c])
            /\ cur.done[c] =>
                  (cur.err[c] = "" /\ Len(cur.out[c]) = SeqLen(seq))

\* A step that advances one generator leaves the other, and seq, as they were.
NonInterference ==
    \A c \in {1, 2} :
        (cur.open /\ cur'.open /\ (cur'.pos[c] # cur.pos[c] \/ cur'.done[c] # cur.done[c])) =>
            /\ cur'.pos[3 - c] = cur.pos[3 - c]
            /\ cur'.out[3 - c] = cur.out[3 - c]
            /\ cur'.done[3 - c] = cur.done[3 - c]
            /\ seq' = seq

\* C8: two generators obtained from the same Sequence, advanced in any
\* interleaving, each yield the full frame sequence in order and identical
\* frames at every position; advancing one changes neither the other nor seq.
C8_IndependentCursors == [](CursorsAgree) /\ [][NonInterference]_vars

C8_Witness ==
    /\ cur.open
    /\ seq.cls = "Indexed"
    /\ cur.pos = <<2, 1>>
    /\ cur.done = <<TRUE, FALSE>>

\* C9: len(S) is the number of frames one exhausted generator of S yields; for
\* a _MotionCorrectedSequence it is the length of its base.
C9_LenIsFrameCount ==
    /\ Iter(seq).err = ""
    /\ SeqLen(seq) = Len(Iter(seq).frames)
    /\ \A c \in {1, 2} : (cur.open /\ cur.done[c]) => Len(cur.out[c]) = SeqLen(seq)
    /\ seq.cls = "MC" => SeqLen(seq) = SeqLen(seq.base)

C9_Witness ==
    /\ seq.cls = "MC"
    /\ seq.base.cls = "Indexed"
    /\ Len(seq.displacements) = SeqLen(seq.base) * seq.frame_shape[2]
    /\ SeqLen(seq) = 2
    /\ cur.open
    /\ cur.done[1]

\* C10: iterating an _IndexedSequence whose base implements __iter__ but not
\* _get_frame raises no error and yields the base's frame at each selected
\* time, in order, with the remaining selectors applied.
C10_SequentialFallback ==
    (/\ seq.cls = "Indexed"
     /\ seq.base.cls = "Cursor"
     /\ cur.open
     /\ cur.done[1]) =>
        /\ cur.err[1] = ""
        /\ cur.out[1] =
              [k \in 1..Len(seq.times) |->
                  ApplyIdx(Iter(seq.base).frames[seq.times[k] + 1], Rest(seq.indices)).val]

\* C11: when seq[indices] gives an integer i for a non-time axis of n
\* elements, -n <= i < n, the stored selector of that axis picks exactly the
\* element i names, and every sliced frame keeps the axis with that one
\* element.
C11_IntKeepsAxis ==
    (op.name = "getitem" /\ op.ok /\ seq.cls = "Indexed") =>
        \A a \in 2..Len(op.indices.sels) :
            op.indices.sels[a].kind = "int" =>
                \A k \in 1..Len(Iter(seq).frames) :
                    LET now == Iter(seq).frames[k]
                        was == GetFrame(op.prev, seq.times[k]).val
                        n == Len(was.sel[a - 1])
                        pick == RefPick(op.indices.sels[a], n)
                    IN  ValidSel(op.indices.sels[a], n) =>
                            /\ SliceIndices(seq.indices[a], n) = pick
                            /\ now.sel[a - 1] = <<was.sel[a - 1][pick[1] + 1]>>

\* ------------------------------------------------------------ _fill_gaps
\* A pixel value: not-a-number, infinite, or a finite number.
NaN == [k |-> "nan", v |-> 0]

Inf == [k |-> "inf", v |-> 0]

Fin(v) == [k |-> "fin", v |-> v]

\* The largest finite float, which np.nan_to_num puts in place of infinity.
FloatMax == 1000

PixelValues == {NaN, Inf, Fin(1), Fin(2)}

\* The pixels of a frame, over all its channels.
Pixels == 1..2

StreamFrames == [Pixels -> PixelValues]

Streams == UNION {[1..n -> StreamFrames] : n \in 0..MaxStream}

\* np.isnan and np.isfinite
IsNaN(px) == px.k = "nan"

IsFinite(px) == px.k = "fin"

\* np.nan_to_num
NanToNum(px) ==
    IF IsNaN(px) THEN Fin(0) ELSE IF px.k = "inf" THEN Fin(FloatMax) ELSE px

\* A boolean times a float: the boolean is 0.0 or 1.0, and 0.0 * nan and
\* 0.0 * inf are nan.
MaskTimes(b, px) ==
    IF IsNaN(px) THEN NaN
    ELSE IF px.k = "inf" THEN (IF b THEN Inf ELSE NaN)
    ELSE (IF b THEN px ELSE Fin(0))

\* Float addition.
FAdd(a, b) ==
    IF IsNaN(a) \/ IsNaN(b) THEN NaN
    ELSE IF a.k = "inf" \/ b.k = "inf" THEN Inf
    ELSE Fin(a.v + b.v)

\* np.nan_to_num(mr_ch) + np.isnan(mr_ch) * fo_ch
FillEmit(most_recent, first_obs) ==
    [p \in Pixels |->
        FAdd(NanToNum(most_recent[p]), MaskTimes(IsNaN(most_recent[p]), first_obs[p]))]

\* fobs_chan[np.isnan(fobs_chan)] = frame_chan[np.isnan(fobs_chan)]
FillBaseline(first_obs, frame) ==
    [p \in Pixels |-> IF IsNaN(first_obs[p]) THEN frame[p] ELSE first_obs[p]]

\* mr_chan[np.isfinite(fr_chan)] = fr_chan[np.isfinite(fr_chan)]
FillRecent(most_recent, frame) ==
    [p \in Pixels |-> IF IsFinite(frame[p]) THEN frame[p] ELSE most_recent[p]]

AllFinite(frame) == \A p \in Pixels : IsFinite(frame[p])

\* most_recent = [x * np.nan for x in first_obs]
AllNaN(first_obs) == [p \in Pixels |-> NaN]

\* One pass of the body of "for frame in frame_iter2", the yield included.
FillPass2StepStale(f) ==
    [f EXCEPT !.most_recent = FillRecent(f.most_recent, f.stream[f.i2 + 1]),
              !.out = Append(@, FillEmit(f.most_recent, f.first_obs)),
              !.i2 = @ + 1]

FillPass2Step(f) ==
    LET mr == FillRecent(f.most_recent, f.stream[f.i2 + 1])
    IN  [f EXCEPT !.most_recent = mr,
                  !.out = Append(@, FillEmit(mr, f.first_obs)),
                  !.i2 = @ + 1]

\* The generator _fill_gaps(iter(self), iter(self)) before its first next().
InitFill ==
    /\ \E stream \in Streams :
          fg = [pc |-> "start", stream |-> stream, i1 |-> 0, i2 |-> 0,
                first_obs |-> <<>>, most_recent |-> <<>>, out |-> <<>>]
    /\ seq = CursorSeq(0)
    /\ op = OpRecord("create", NoIndex, CursorSeq(0), Ok(0))
    /\ cur = NoCursors
    /\ h5 = IdleH5
    /\ rp = IdleRp

\* first_obs = next(frame_iter1); an empty stream ends the generator.
FillFirst ==
    /\ fg.pc = "start"
    /\ fg' = IF fg.stream = <<>> THEN [fg EXCEPT !.pc = "done"]
             ELSE [fg EXCEPT !.pc = "pass1", !.first_obs = fg.stream[1], !.i1 = 1]
    /\ UNCHANGED <<seq, op, cur, h5, rp>>

\* One pass of "for frame in frame_iter1", which breaks once first_obs is
\* finite everywhere.
FillPass1 ==
    /\ fg.pc = "pass1"
    /\ fg.i1 < Len(fg.stream)
    /\ LET fo == FillBaseline(fg.first_obs, fg.stream[fg.i1 + 1])
       IN  fg' = IF AllFinite(fo)
                 THEN [fg EXCEPT !.first_obs = fo, !.i1 = @ + 1, !.pc = "pass2",
                                 !.most_recent = AllNaN(fo)]
                 ELSE [fg EXCEPT !.first_obs = fo, !.i1 = @ + 1]
    /\ UNCHANGED <<seq, op, cur, h5, rp>>

\* frame_iter1 is exhausted.
FillPass1End ==
    /\ fg.pc = "pass1"
    /\ fg.i1 = Len(fg.stream)
    /\ fg' = [fg EXCEPT !.pc = "pass2", !.most_recent = AllNaN(fg.first_obs)]
    /\ UNCHANGED <<seq, op, cur, h5, rp>>

FillPass2 ==
    /\ fg.pc = "pass2"
    /\ fg.i2 < Len(fg.stream)
    /\ fg' = FillPass2Step(fg)
    /\ UNCHANGED <<seq, op, cur, h5, rp>>

\* frame_iter2 is exhausted.
FillPass2End ==
    /\ fg.pc = "pass2"
    /\ fg.i2 = Len(fg.stream)
    /\ fg' = [fg EXCEPT !.pc = "done"]
    /\ UNCHANGED <<seq, op, cur, h5, rp>>

NextFill == FillFirst \/ FillPass1 \/ FillPass1End \/ FillPass2 \/ FillPass2End

SpecFill == InitFill /\ [][NextFill]_vars

\* The frames 0..k (0-based) in which pixel p is finite.
FiniteUpTo(stream, k, p) == {j \in 0..k : IsFinite(stream[j + 1][p])}

SetMax(S) == CHOOSE x \in S : \A y \in S : y <= x

\* C3: every emitted pixel is the most recent finite value seen at that pixel
\* in frames 0..k when one exists, otherwise first_obs when it is finite,
\* otherwise zero; a pixel that is not-a-number in every frame is zero in
\* every emitted frame.
C3_FillValue ==
    \A k \in 0..(Len(fg.out) - 1) : \A p \in Pixels :
        fg.out[k + 1][p] =
            IF FiniteUpTo(fg.stream, k, p) # {}
            THEN fg.stream[SetMax(FiniteUpTo(fg.stream, k, p)) + 1][p]
            ELSE IF IsFinite(fg.first_obs[p]) THEN fg.first_obs[p]
            ELSE Fin(0)

StreamAllFinite == \A j \in 1..Len(fg.stream) : AllFinite(fg.stream[j])

\* C4: when every pixel of every frame is finite, _fill_gaps emits as many
\* frames as the stream holds and the k-th emitted frame is the k-th frame.
C4_FinitePassThrough ==
    StreamAllFinite =>
        /\ fg.out = SubSeq(fg.stream, 1, Len(fg.out))
        /\ Len(fg.out) = fg.i2
        /\ fg.pc = "done" => fg.out = fg.stream

C4_Witness ==
    /\ fg.pc = "done"
    /\ StreamAllFinite
    /\ Len(fg.stream) = 2
    /\ fg.stream[1] # fg.stream[2]
    /\ fg.out = fg.stream

\* ---------------------------------------------- _Sequence_HDF5._get_frame
\* The dimension orders of a dataset: 't', 'y', 'x' and optionally 'z' and
\* 'c', in any order.
OrdersOf(S) ==
    {f \in [1..Cardinality(S) -> S] : \A a, b \in 1..Cardinality(S) : a # b => f[a] # f[b]}

DimOrders ==
    UNION {OrdersOf({"t", "y", "x"} \cup extra) : extra \in SUBSET {"z", "c"}}

\* A call _get_frame(t) on the adapter of a dataset stored in dim_order.
InitH5 ==
    /\ \E dim_order \in DimOrders : \E t \in 0..(NFrames - 1) :
          h5 = [pc |-> "call", s |-> H5Seq(DataPath, dim_order, "/", "imaging"),
                t |-> t, st |-> H5LoopStart(dim_order), frame |-> NoFrame]
    /\ seq = CursorSeq(0)
    /\ op = OpRecord("create", NoIndex, CursorSeq(0), Ok(0))
    /\ cur = NoCursors
    /\ fg = IdleFg
    /\ rp = IdleRp

\* slices, swapper and frame = self._dataset[tuple(slices)]
H5Begin ==
    /\ h5.pc = "call"
    /\ h5' = [h5 EXCEPT !.pc = "loop", !.st = H5LoopStart(h5.s.dim_order)]
    /\ UNCHANGED <<seq, op, cur, fg, rp>>

H5Swap ==
    /\ h5.pc = "loop"
    /\ h5.st.i < Len(h5.st.axes)
    /\ h5' = [h5 EXCEPT !.st = H5LoopStep(h5.st)]
    /\ UNCHANGED <<seq, op, cur, fg, rp>>

\* return frame.astype(float)
H5Return ==
    /\ h5.pc = "loop"
    /\ h5.st.i >= Len(h5.st.axes)
    /\ h5' = [h5 EXCEPT !.pc = "returned", !.frame = MakeFrame(h5.t, h5.st.axes)]
    /\ UNCHANGED <<seq, op, cur, fg, rp>>

NextH5 == H5Begin \/ H5Swap \/ H5Return

SpecH5 == InitH5 /\ [][NextH5]_vars

\* The canonical axes a dimension order declares.
DeclaredAxes(dim_order) ==
    LET Declared(sym) == \E p \in 1..Len(dim_order) : dim_order[p] = sym
    IN  SelectSeq(CanonicalAxes, Declared)

\* C6: for every dimension order, _get_frame(t) returns the hyperslab at time
\* t with its axes in (plane, row, column, channel) order, so its shape is
\* (size_z, size_y, size_x, size_c) restricted to the declared symbols, and
\* the length of the adapter is the size of the time axis.
C6_CanonicalFrame ==
    h5.pc = "returned" =>
        /\ h5.frame.t = h5.t
        /\ h5.frame.axes = DeclaredAxes(h5.s.dim_order)
        /\ FrameShape(h5.frame) =
              [a \in 1..Len(DeclaredAxes(h5.s.dim_order)) |->
                  AxisSize[DeclaredAxes(h5.s.dim_order)[a]]]
        /\ h5.frame = H5GetFrame(h5.s, h5.t)
        /\ H5Len(h5.s) = NFrames

\* ----------------------------------------------------------- _from_dict
RelPaths == {<<"a.h5">>, <<".", "a.h5">>, <<"..", "old", "a.h5">>}

\* The mappings a saved HDF5 sequence may load as: with or without a stored
\* relative path, absolute path and path.
SavedDicts ==
    {[class |-> "HDF5", path |-> path, dim_order |-> CanonicalOrder, group |-> "/",
      key |-> "imaging", relpath |-> rel, abspath |-> abs] :
        path \in {PyNone, Some(<<"old", "a.h5">>)},
        rel \in {PyNone} \cup {Some(r) : r \in RelPaths},
        abs \in {PyNone} \cup {Some(a) : a \in PathNames}}

\* A call Sequence._from_dict(d, savedir) on some file system.
InitPaths ==
    /\ \E d \in SavedDicts : \E fs \in [PathNames -> FileIds] :
          rp = [pc |-> "call", d0 |-> d, d |-> d, fs |-> fs, err |-> "",
                built |-> FALSE]
    /\ seq = CursorSeq(0)
    /\ op = OpRecord("create", NoIndex, CursorSeq(0), Ok(0))
    /\ cur = NoCursors
    /\ fg = IdleFg
    /\ h5 = IdleH5

\* _resolve_paths(d, savedir), which changes d in place, then cls(**d).
FromDictCall ==
    /\ rp.pc = "call"
    /\ \E last \in PopChoices(rp.d, ProjectDir, rp.fs) :
          LET r == ResolvePaths(rp.d, ProjectDir, rp.fs, last)
              c == IF r.ok THEN Construct(rp.d.class, r.val, rp.fs) ELSE r
          IN  rp' = [rp EXCEPT !.pc = "done", !.d = r.val, !.err = c.err,
                               !.built = c.ok]
    /\ UNCHANGED <<seq, op, cur, fg, h5>>

NextPaths == FromDictCall

SpecPaths == InitPaths /\ [][NextPaths]_vars

\* Both stored paths are present and both name an existing file.
BothExist ==
    /\ rp.d0.relpath # PyNone
    /\ rp.d0.abspath # PyNone
    /\ IsFile(rp.fs, NormPath(JoinPath(ProjectDir, rp.d0.relpath[1])))
    /\ IsFile(rp.fs, NormPath(rp.d0.abspath[1]))

RelFile == rp.fs[NormPath(JoinPath(ProjectDir, rp.d0.relpath[1]))]

AbsFile == rp.fs[NormPath(rp.d0.abspath[1])]

\* C7: when the stored relative and absolute paths both exist and are the
\* same file, resolution succeeds, removes '_relpath' and '_abspath' and sets
\* 'path' to one of the candidates; when they are distinct files it fails
\* with the path-ambiguity error and no sequence is constructed.
C7_ResolvePaths ==
    (rp.pc = "done" /\ BothExist) =>
        /\ RelFile = AbsFile =>
              /\ rp.err = ""
              /\ rp.built
              /\ rp.d.relpath = PyNone
              /\ rp.d.abspath = PyNone
              /\ rp.d.path # PyNone
              /\ rp.d.path[1] \in Candidates(rp.d0, ProjectDir)
              /\ IsFile(rp.fs, rp.d.path[1])
        /\ RelFile # AbsFile =>
              /\ rp.err = "PathAmbiguity"
              /\ ~rp.built

C7_Witness ==
    /\ rp.pc = "done"
    /\ BothExist
    /\ RelFile = AbsFile
    /\ NormPath(JoinPath(ProjectDir, rp.d0.relpath[1])) # NormPath(rp.d0.abspath[1])
    /\ rp.d0.relpath[1] = <<"..", "old", "a.h5">>
    /\ rp.built

\* ------------------------------------------- _WrapperSequence._from_dict
\* The mappings a saved leaf may load as, with at most one stored path.
LeafForms == {d \in SavedDicts : d.relpath = PyNone \/ d.abspath = PyNone}

\* Mappings whose '__class__' is not a class of this module: a class defined
\* elsewhere that has a _from_dict, and a value that has none.
OutsideForms == {[class |-> "Foreign", n |-> NFrames], [class |-> "NoClass", n |-> NFrames]}

\* The mappings of a wrapper over the base mapping b.
WrappersOf(b) ==
    {[class |-> "MC", base |-> b,
      displacements |-> MakeDisplacements(NFrames, TargetShape[2]),
      frame_shape |-> TargetShape]}
    \cup {[class |-> "Indexed", base |-> b, indices |-> <<t>>] : t \in {FullSlice, Row13}}

\* The saved wrapper mappings the model loads: one or two wrappers deep.
WrapperForms ==
    LET one == UNION {WrappersOf(b) : b \in LeafForms \cup OutsideForms}
    IN  one \cup UNION {WrappersOf(b) : b \in {w \in one : w.base \in OutsideForms}}

LoadFs == [PathNames -> {0, 1}]

\* A call d.pop('__class__')._from_dict(d, savedir) on a saved wrapper.
InitLoad ==
    /\ \E d \in WrapperForms : \E fs \in LoadFs :
          rp = [pc |-> "load", d0 |-> d, fs |-> fs, invoked |-> <<>>, err |-> "",
                built |-> FALSE]
    /\ seq = CursorSeq(0)
    /\ op = OpRecord("create", NoIndex, CursorSeq(0), Ok(0))
    /\ cur = NoCursors
    /\ fg = IdleFg
    /\ h5 = IdleH5

LoadCall ==
    /\ rp.pc = "load"
    /\ LET r == FromDict(rp.d0.class, rp.d0, Some(ProjectDir), rp.fs)
       IN  /\ rp' = [rp EXCEPT !.pc = "loaded",
                                !.invoked = FromDictInvoked(rp.d0.class, rp.d0),
                                !.err = r.err, !.built = r.ok]
           /\ seq' = IF r.ok THEN r.val ELSE seq
    /\ UNCHANGED <<op, cur, fg, h5>>

NextLoad == LoadCall

SpecLoad == InitLoad /\ [][NextLoad]_vars

\* The classes of this module that write themselves into a saved mapping.
Registry == {"HDF5", "MC", "Indexed"}

RECURSIVE NestedTags(_)
\* The '__class__' values of the mappings nested in d.
NestedTags(d) ==
    IF d.class \in {"MC", "Indexed"}
    THEN {d.base.class} \cup NestedTags(d.base)
    ELSE {}

\* C12: loading a saved wrapper calls the _from_dict of classes of the
\* registry only, and a mapping that nests a '__class__' outside the
\* registry is rejected: nothing is built and nothing outside is called.
C12_ClosedRegistry ==
    rp.pc = "loaded" =>
        /\ \A k \in 1..Len(rp.invoked) : rp.invoked[k] \in Registry
        /\ (NestedTags(rp.d0) \ Registry # {}) => ~rp.built
====
